---- MODULE Spec2Model ----
(***************************************************************************)
(* Recommendation core of the e-commerce recommendation engine: the        *)
(* interaction store behind POST /api/interaction/, the read-through       *)
(* cache of get_recommendations, the background training and precompute    *)
(* tasks, and the A/B variant assignment.                                  *)
(***************************************************************************)
EXTENDS Integers, Sequences, FiniteSets, TLC

VARIABLES
    store,        \* user_behavior table: sequence of rows in insertion (id) order
    now,          \* server clock, in seconds
    cache,        \* Django cache: key (user, count) -> entry or NoEntry
    wr,           \* the POST /api/interaction/ request in flight
    rd,           \* get_recommendations calls in flight (API requests and precompute tasks)
    snapshots,    \* every model state ever published, in publication order
    current,      \* index into snapshots of the model the engine serves from
    tr,           \* the retrain_models task
    metrics,      \* training failures reported to the metrics collector
    assignment,   \* persisted experiment assignments: user -> variant or NoVariant
    rk,           \* one ranking of the whole catalogue for a user without history
    xp,           \* experiment router: exposures in flight and the ExperimentAssignment rows
    fb,           \* feature builder: the interaction log it folds and the weights built so far
    ft,           \* runs of MatrixFactorizationModel.fit: their inputs and the factors they hold
    ui,           \* storefront (React state of AdvancedEcommerceAI) and its pending timers
    ce,           \* CachedRecommendationEngine: its memory cache, its Redis keys and the call in flight
    wk,           \* working copy of the factors that incremental updates mutate
    bl,           \* one blend of the scorers' outputs over a list of candidates
    ro,           \* one ranking of scored candidates in some enumeration order
    ap            \* the calls of ApiService.getAllProducts in flight

vars == <<store, now, cache, wr, rd, snapshots, current, tr, metrics, assignment, rk, xp, fb, ft, ui, ce, wk, bl, ro, ap>>

\* The state of the serving path and the training task
serving == <<store, now, cache, wr, rd, snapshots, current, tr, metrics, assignment>>

----------------------------------------------------------------------------
(* Bounds of the model *)

MaxRows == 2       \* rows the user_behavior table may hold
MaxTicks == 1      \* clock steps
MaxRuns == 2       \* training runs, published or failed
MaxEpochs == 1     \* SGD epochs of one training run
NumRankProducts == 6  \* catalogue size of the cold-start ranking
MaxPopularity == 1    \* highest interaction count of a product in the cold-start ranking
RankCount == 5        \* count requested in the cold-start ranking
NumRequests == 2      \* concurrent requests passing the experiment router
MaxEvents == 3        \* interactions in the log the feature builder folds
MaxDays == 1          \* age in days of the oldest interaction in that log
NumFits == 2          \* runs of fit compared with each other
NumDraws == 2         \* distinct values the random generator may return
MaxBehaviors == 2     \* interactions the storefront records
MaxTimers == 2        \* refresh timers the storefront has pending at once
MaxNotified == 6      \* notifications the storefront adds
MaxQuantity == 2      \* quantity of a cart line
MaxClock == 1         \* milliseconds that pass in the storefront
NumBlendItems == 2    \* candidates of one blend
MaxScore == 2         \* highest score a scorer reports
NumCandidates == 3    \* candidates of one ranking
NumApiCalls == 2      \* calls of getAllProducts in flight

Users == {1}
Products == {1, 2}
Readers == {1}

(* Program constants *)

DefaultCount == 10       \* num_recommendations=10
CacheTimeout == 1800     \* cache.set(cache_key, recommendations, timeout=1800)
PrecomputeTimeout == 3600 \* cache.set(cache_key, recommendations, timeout=3600)
CfWeight == 7            \* 0.7 * cf_scores, in tenths
MfWeight == 3            \* 0.3 * mf_scores, in tenths
DefaultDecay == 1        \* decay_factor=0.1, in tenths
TriggerDelay == 800   \* ms between an interaction and the regeneration it starts
GenerateDelay == 2000 \* ms a regeneration takes
SampleCount == 5      \* count: 5 of the sample data

Counts == {1, DefaultCount}

\* UserBehavior.INTERACTION_TYPES and the CHECK constraint of user_behavior
InteractionTypes == {"view", "like", "cart", "purchase"}

\* interaction_type values a client may post; "" stands for a missing field
PostedTypes == {"view", "purchase", "wishlist", ""}

\* The snapshot version and the variant a list was computed with
NoOrigin == [version |-> -1, variant |-> "none"]

NoEntry == [recs |-> <<>>, expires |-> -1, seenRows |-> -1, from |-> NoOrigin]
NoVariant == "none"

\* Experiment the router assigns variants for
ActiveExperiment == "rec_test_v2"

----------------------------------------------------------------------------
(* Interaction store *)

Row(u, p, t, ts) == [user |-> u, product |-> p, type |-> t, timestamp |-> ts]

UserRows(S, u) == {i \in 1..Len(S) : S[i].user = u}

NRows(S, u) == Cardinality(UserRows(S, u))

\* user_interactions.values_list('product_id', flat=True)
Interacted(S, u) == {S[i].product : i \in UserRows(S, u)}

Purchased(S, u) == {S[i].product : i \in {j \in UserRows(S, u) : S[j].type = "purchase"}}

\* The rows whose POST has been answered: the writer in flight has created at
\* most the last row.
CompletedStore == IF wr.pc = "created" THEN SubSeq(store, 1, Len(store) - 1) ELSE store

----------------------------------------------------------------------------
(* Ranking *)

Max(S) == CHOOSE x \in S : \A y \in S : y <= x

RECURSIVE CatalogueOrder(_)
\* Product.Meta.ordering = ['-created_at']: newest (highest id) first
CatalogueOrder(P) ==
    IF P = {} THEN <<>>
    ELSE LET m == Max(P) IN <<m>> \o CatalogueOrder(P \ {m})

\* Product.objects.exclude(id__in=interacted_products)
Candidates(S, u) == CatalogueOrder(Products \ Interacted(S, u))

\* One insertion of a stable descending sort: x goes after every element
\* whose score is at least its own.
InsertDesc(sorted, x, sc) ==
    LET n == Cardinality({i \in 1..Len(sorted) : sc[sorted[i]] >= sc[x]})
    IN  SubSeq(sorted, 1, n) \o <<x>> \o SubSeq(sorted, n + 1, Len(sorted))

RECURSIVE SortedDesc(_, _)
\* sorted(zip(candidates, final_scores), key=lambda x: x[1], reverse=True):
\* stable, equal scores keep the candidates' order
SortedDesc(cands, sc) ==
    IF cands = <<>> THEN <<>>
    ELSE InsertDesc(SortedDesc(SubSeq(cands, 1, Len(cands) - 1), sc),
                    cands[Len(cands)], sc)

\* ranked_products[:num_recommendations], num_recommendations >= 0
Take(seq, n) == SubSeq(seq, 1, IF n < Len(seq) THEN n ELSE Len(seq))

\* Rank and select top N
TopN(cands, sc, n) == Take(SortedDesc(cands, sc), n)

\* Global popularity: interactions per product across all users
Popularity(S, p) == Cardinality({i \in 1..Len(S) : S[i].product = p})

----------------------------------------------------------------------------
(* Models and scoring *)

\* Factor matrices are represented by the training run that wrote them and
\* the number of SGD epochs applied to them.
Factors(run, epoch) == [run |-> run, epoch |-> epoch]

InitialSnapshot ==
    [version |-> 0, user_factors |-> Factors(0, MaxEpochs),
     item_factors |-> Factors(0, MaxEpochs), trained_on |-> 0]

NoCandidate ==
    [version |-> -1, user_factors |-> Factors(-1, 0),
     item_factors |-> Factors(-1, 0), trained_on |-> 0]

\* model.predict(user_id, candidates) for one candidate: the popularity of the
\* product for a user without history, else the affinity the model learned
\* from its training data.
Predict(S, model, u, p) ==
    IF NRows(S, u) = 0 THEN Popularity(S, p)
    ELSE Popularity(SubSeq(S, 1, model.trained_on), p)

\* The weights of the blend, in tenths: the engine's (collaborative, matrix
\* factorization) and the documented three-way split (neural collaborative,
\* matrix factorization, content-based)
EngineWeights == <<CfWeight, MfWeight>>
DocumentedWeights == <<7, 2, 1>>

\* The configuration a variant is served with: the engine has one for all
VariantWeights(variant) == EngineWeights

\* A blend whose weights were raised for one scorer only
EnsembleUnnormalised(cf, mf) == CfWeight * cf + (MfWeight + 1) * mf

\* final_scores = 0.7 * cf_scores + 0.3 * mf_scores, in tenths
Ensemble(cf, mf) == CfWeight * cf + MfWeight * mf

FinalScore(S, model, u, p) == Ensemble(Predict(S, model, u, p), Predict(S, model, u, p))

\* The body of get_recommendations after a cache miss
ComputeRecommendations(S, model, u, n) ==
    TopN(Candidates(S, u), [p \in Products |-> FinalScore(S, model, u, p)], n)

----------------------------------------------------------------------------
(* Experiment router *)

\* Last hexadecimal digit of hashlib.md5(f"{user_id}_{experiment_name}").hexdigest()
MD5LastDigit(u, e) ==
    CASE u = 1 /\ e = "rec_test_v2" -> 10   \* c6522c79458b6fa3d901d35e1946904a
      [] u = 2 /\ e = "rec_test_v2" -> 1    \* 5270b3eff46333f2827412a322c36c41
      [] u = 3 /\ e = "rec_test_v2" -> 0    \* b2aa99704484be4e4d2ab1bea2babd70
      [] OTHER -> 11

\* Variant drawn from mutable state instead of the hash: the stateful random
\* assignment the hash replaces.
assign_user_to_variant_stateful(u, e) ==
    IF (MD5LastDigit(u, e) + Len(store)) % 2 = 0 THEN "A" ELSE "B"

\* "A" if int(hash_value, 16) % 2 == 0 else "B"
assign_user_to_variant(u, e) ==
    IF MD5LastDigit(u, e) % 2 = 0 THEN "A" ELSE "B"

----------------------------------------------------------------------------
(* Cache *)

CacheKeys == Users \X Counts

\* cache.get(key) returns the value while the timeout has not elapsed
Live(e) == e # NoEntry /\ now < e.expires

\* `if cached:` -- an empty list is falsy and counts as a miss
IsHit(e) == Live(e) /\ e.recs # <<>>

\* A cached list; seenRows records how many interactions of the user the list
\* was computed from, `from` the snapshot version and variant it was computed with.
Entry(recs, timeout, seen, from) ==
    [recs |-> recs, expires |-> now + timeout, seenRows |-> seen, from |-> from]

\* engine.record_interaction(user_id, ...): every cache entry of the user is dropped
record_interaction(u) ==
    [k \in CacheKeys |-> IF k[1] = u THEN NoEntry ELSE cache[k]]

----------------------------------------------------------------------------
(* POST /api/interaction/ : InteractionAPIView.post *)

IdleWriter == [pc |-> "idle", user |-> 0, product |-> 0, type |-> "", resp |-> "none"]

\* Field validation and UserBehavior.objects.create. `check` says whether the
\* table was built with the CHECK constraint of the SQL schema (the migration
\* and the model's `choices` create none).
PostCreate(u, p, t, check) ==
    /\ wr.pc \in {"idle", "done"}
    /\ IF t = ""
       THEN \* a required field is missing: 400, nothing stored
            /\ wr' = [IdleWriter EXCEPT !.pc = "done", !.type = t, !.resp = "400"]
            /\ UNCHANGED store
       ELSE IF check /\ t \notin InteractionTypes
       THEN \* the CHECK constraint fails the INSERT: caught by `except Exception`
            /\ wr' = [IdleWriter EXCEPT !.pc = "done", !.type = t, !.resp = "500"]
            /\ UNCHANGED store
       ELSE /\ Len(store) < MaxRows
            /\ store' = Append(store, Row(u, p, t, now))
            /\ wr' = [pc |-> "created", user |-> u, product |-> p, type |-> t, resp |-> "none"]
    /\ UNCHANGED <<now, cache, rd, snapshots, current, tr, metrics, assignment, rk, xp, fb, ft, ui, ce, wk, bl, ro, ap>>

\* recommendation_engine.record_interaction(...) and the 201 response
PostRecord ==
    /\ wr.pc = "created"
    /\ cache' = record_interaction(wr.user)
    /\ wr' = [IdleWriter EXCEPT !.pc = "done", !.type = wr.type, !.resp = "201"]
    /\ UNCHANGED <<store, now, rd, snapshots, current, tr, metrics, assignment, rk, xp, fb, ft, ui, ce, wk, bl, ro, ap>>

----------------------------------------------------------------------------
(* get_recommendations: GET /api/recommendations/{user_id}/ and the
   precompute_recommendations task *)

IdleReader ==
    [pc |-> "idle", task |-> FALSE, user |-> 0, count |-> 0, variant |-> NoVariant,
     model |-> NoCandidate, seen |-> 0, recs |-> <<>>, resp |-> "none",
     hit |-> FALSE, raised |-> FALSE, startDone |-> 0, startPurchased |-> {},
     startVersion |-> 0, from |-> NoOrigin]

\* No try/except around the engine call: the exception leaves the view.
ViewResponseUnhandled(raised) == IF raised THEN "unhandled" ELSE "200"

\* RecommendationsAPIView.get: try ... except Exception -> 500 {'error': str(e)}
ViewResponse(raised) == IF raised THEN "500" ELSE "200"

\* What the caller of get_recommendations gets: the HTTP response of the view,
\* or the outcome of the Celery task.
Outcome(task, raised) ==
    IF task THEN (IF raised THEN "task_failed" ELSE "task_done") ELSE ViewResponse(raised)

\* Entry into the engine: variant resolution and the cache lookup. `raised`
\* says the cache store timed out.
GetStart(r, u, n, task, raised) ==
    /\ rd[r].pc \in {"idle", "done"}
    /\ task => n = DefaultCount
    /\ LET v == assign_user_to_variant(u, ActiveExperiment)
           e == cache[<<u, n>>]
           req == [IdleReader EXCEPT !.task = task, !.user = u, !.count = n, !.variant = v,
                      !.startDone = NRows(CompletedStore, u),
                      !.startPurchased = Purchased(CompletedStore, u),
                      !.startVersion = snapshots[current].version]
       IN  /\ assignment' = [assignment EXCEPT ![u] = IF @ = NoVariant THEN v ELSE @]
           /\ rd' = [rd EXCEPT ![r] =
                 IF raised THEN [req EXCEPT !.pc = "done", !.resp = Outcome(task, TRUE),
                                            !.raised = TRUE]
                 ELSE IF IsHit(e)
                 THEN [req EXCEPT !.pc = IF task THEN "taskset" ELSE "done",
                                  !.resp = IF task THEN "none" ELSE Outcome(task, FALSE),
                                  !.recs = e.recs, !.seen = e.seenRows, !.hit = TRUE,
                                  !.from = e.from]
                 ELSE [req EXCEPT !.pc = "compute"]]
    /\ UNCHANGED <<store, now, cache, wr, snapshots, current, tr, metrics, rk, xp, fb, ft, ui, ce, wk, bl, ro, ap>>

\* Cache miss: history, candidates, model scores, ranking, top N
GetCompute(r) ==
    /\ rd[r].pc = "compute"
    /\ LET m == snapshots[current]
       IN  rd' = [rd EXCEPT ![r].pc = "store", ![r].model = m,
                            ![r].seen = NRows(store, rd[r].user),
                            ![r].from = [version |-> m.version, variant |-> rd[r].variant],
                            ![r].recs = ComputeRecommendations(store, m, rd[r].user, rd[r].count)]
    /\ UNCHANGED <<store, now, cache, wr, snapshots, current, tr, metrics, assignment, rk, xp, fb, ft, ui, ce, wk, bl, ro, ap>>

\* cache.set(cache_key, recommendations, timeout=1800); return recommendations
GetStore(r) ==
    /\ rd[r].pc = "store"
    /\ cache' = [cache EXCEPT ![<<rd[r].user, rd[r].count>>] =
                    Entry(rd[r].recs, CacheTimeout, rd[r].seen, rd[r].from)]
    /\ rd' = [rd EXCEPT ![r].pc = IF rd[r].task THEN "taskset" ELSE "done",
                        ![r].resp = IF rd[r].task THEN "none" ELSE Outcome(FALSE, FALSE),
                        ![r].model = NoCandidate]
    /\ UNCHANGED <<store, now, wr, snapshots, current, tr, metrics, assignment, rk, xp, fb, ft, ui, ce, wk, bl, ro, ap>>

\* precompute_recommendations: cache.set(f"recommendations_user_{user_id}_10", ..., timeout=3600)
PrecomputeSet(r) ==
    /\ rd[r].pc = "taskset"
    /\ cache' = [cache EXCEPT ![<<rd[r].user, DefaultCount>>] =
                    Entry(rd[r].recs, PrecomputeTimeout, rd[r].seen, rd[r].from)]
    /\ rd' = [rd EXCEPT ![r].pc = "done", ![r].resp = Outcome(TRUE, FALSE)]
    /\ UNCHANGED <<store, now, wr, snapshots, current, tr, metrics, assignment, rk, xp, fb, ft, ui, ce, wk, bl, ro, ap>>

----------------------------------------------------------------------------
(* retrain_models task: engine = RecommendationEngine(); engine.train_models();
   cache.delete_pattern("recommendations_*") *)

IdleTrainer == [pc |-> "idle", cand |-> NoCandidate, diverged |-> FALSE]

\* The candidate's version is counted from the first snapshot, not the current one.
TrainStartStaleVersion ==
    /\ tr.pc = "idle"
    /\ (Len(snapshots) - 1) + metrics < MaxRuns
    /\ LET v == snapshots[1].version + 1
       IN  tr' = [pc |-> "sgd", diverged |-> FALSE,
                  cand |-> [version |-> v, user_factors |-> Factors(v, 0),
                            item_factors |-> Factors(v, 0), trained_on |-> Len(store)]]
    /\ UNCHANGED <<store, now, cache, wr, rd, snapshots, current, metrics, assignment, rk, xp, fb, ft, ui, ce, wk, bl, ro, ap>>

\* A fresh engine: factors initialised at random, training data read
TrainStart ==
    /\ tr.pc = "idle"
    /\ (Len(snapshots) - 1) + metrics < MaxRuns
    /\ LET v == snapshots[current].version + 1
       IN  tr' = [pc |-> "sgd", diverged |-> FALSE,
                  cand |-> [version |-> v, user_factors |-> Factors(v, 0),
                            item_factors |-> Factors(v, 0), trained_on |-> Len(store)]]
    /\ UNCHANGED <<store, now, cache, wr, rd, snapshots, current, metrics, assignment, rk, xp, fb, ft, ui, ce, wk, bl, ro, ap>>

\* The SGD updates are applied to the factors of the engine that serves.
TrainEpochInPlace ==
    /\ tr.pc = "sgd"
    /\ tr.cand.user_factors.epoch < MaxEpochs
    /\ \E nan \in BOOLEAN :
          tr' = [tr EXCEPT !.diverged = @ \/ nan,
                           !.cand.user_factors.epoch = @ + 1,
                           !.cand.item_factors.epoch = @ + 1]
    /\ snapshots' = [snapshots EXCEPT
                       ![current].user_factors = Factors(tr.cand.version, tr.cand.user_factors.epoch + 1),
                       ![current].item_factors = Factors(tr.cand.version, tr.cand.item_factors.epoch + 1)]
    /\ UNCHANGED <<store, now, cache, wr, rd, current, metrics, assignment, rk, xp, fb, ft, ui, ce, wk, bl, ro, ap>>

\* One epoch of MatrixFactorizationModel.fit on the fresh engine's factors;
\* `nan` says the error left the finite range in this epoch.
TrainEpoch ==
    /\ tr.pc = "sgd"
    /\ tr.cand.user_factors.epoch < MaxEpochs
    /\ \E nan \in BOOLEAN :
          tr' = [tr EXCEPT !.diverged = @ \/ nan,
                           !.cand.user_factors.epoch = @ + 1,
                           !.cand.item_factors.epoch = @ + 1]
    /\ UNCHANGED <<store, now, cache, wr, rd, snapshots, current, metrics, assignment, rk, xp, fb, ft, ui, ce, wk, bl, ro, ap>>

\* A diverged run is published like any other.
TrainFinishUnchecked ==
    /\ tr.pc = "sgd"
    /\ tr.cand.user_factors.epoch = MaxEpochs
    /\ snapshots' = Append(snapshots, tr.cand)
    /\ current' = Len(snapshots) + 1
    /\ tr' = [tr EXCEPT !.pc = "trained"]
    /\ UNCHANGED <<store, now, cache, wr, rd, metrics, assignment, rk, xp, fb, ft, ui, ce, wk, bl, ro, ap>>

\* End of train_models: a finite run is published by one pointer update and
\* supersedes the working copy, a diverged run is dropped and reported
TrainFinish ==
    /\ tr.pc = "sgd"
    /\ tr.cand.user_factors.epoch = MaxEpochs
    /\ IF tr.diverged
       THEN /\ metrics' = metrics + 1
            /\ UNCHANGED <<snapshots, current, wk>>
       ELSE /\ snapshots' = Append(snapshots, tr.cand)
            /\ current' = Len(snapshots) + 1
            /\ wk' = [wk EXCEPT !.base = tr.cand.version, !.steps = 0]
            /\ UNCHANGED metrics
    /\ tr' = [tr EXCEPT !.pc = "trained"]
    /\ UNCHANGED <<store, now, cache, wr, rd, assignment, rk, xp, fb, ft, ui, ce, bl, ro, ap>>

\* cache.delete_pattern("recommendations_*")
TrainInvalidate ==
    /\ tr.pc = "trained"
    /\ cache' = [k \in CacheKeys |-> NoEntry]
    /\ tr' = IdleTrainer
    /\ UNCHANGED <<store, now, wr, rd, snapshots, current, metrics, assignment, rk, xp, fb, ft, ui, ce, wk, bl, ro, ap>>

----------------------------------------------------------------------------
(* Incremental learning: one SGD step per ingested event, on a working copy of
   the factors *)

\* base is the version of the snapshot the copy was taken from, steps the
\* incremental steps applied to the copy, applied the events ingested so far
IdleWorkingCopy == [base |-> 0, steps |-> 0, applied |-> 0]

\* The step is applied to the factors of the snapshot that serves.
IncrementalUpdateInPlace ==
    /\ wk.applied < Len(CompletedStore)
    /\ wk' = [wk EXCEPT !.steps = @ + 1, !.applied = @ + 1]
    /\ snapshots' = [snapshots EXCEPT
                       ![current].user_factors = Factors(wk.base, MaxEpochs + wk.steps + 1),
                       ![current].item_factors = Factors(wk.base, MaxEpochs + wk.steps + 1)]
    /\ UNCHANGED <<store, now, cache, wr, rd, current, tr, metrics, assignment, rk, xp, fb, ft, ui, ce, bl, ro, ap>>

\* One SGD step for the next recorded event, on the working copy only
IncrementalUpdate ==
    /\ wk.applied < Len(CompletedStore)
    /\ wk' = [wk EXCEPT !.steps = @ + 1, !.applied = @ + 1]
    /\ UNCHANGED <<serving, rk, xp, fb, ft, ui, ce, bl, ro, ap>>

----------------------------------------------------------------------------
(* Cold start: get_recommendations for a user with no interactions, applied to
   one catalogue and one popularity table *)

RankProducts == 1..NumRankProducts

IdleRanking == [pc |-> "idle", active |-> {}, pop |-> <<>>, count |-> 0, out |-> <<>>]

\* The miss path for a user without history: nothing is excluded, both models
\* score by popularity
RankApply ==
    /\ rk.pc = "input"
    /\ rk' = [rk EXCEPT !.pc = "done",
                        !.out = TopN(CatalogueOrder(rk.active),
                                     [p \in RankProducts |-> Ensemble(rk.pop[p], rk.pop[p])],
                                     rk.count)]
    /\ UNCHANGED <<serving, xp, fb, ft, ui, ce, wk, bl, ro, ap>>

----------------------------------------------------------------------------
(* Experiment router under concurrent exposures: each request looks the
   persisted assignment up, computes the variant when there is none, and
   persists it *)

Requests == 1..NumRequests

ExposedUsers == {1, 2, 3}

IdleExposure ==
    [req |-> [q \in Requests |-> [pc |-> "idle", user |-> 0, variant |-> NoVariant,
                                  first |-> FALSE]],
     rows |-> <<>>]

\* The ExperimentAssignment rows of (u, e)
AssignmentRows(rows, u, e) ==
    {i \in 1..Len(rows) : rows[i].user = u /\ rows[i].experiment = e}

\* Lookup of the persisted assignment: an idempotent read when one exists
ExposeLookup(q, u) ==
    /\ xp.req[q].pc \in {"idle", "resolved"}
    /\ LET found == AssignmentRows(xp.rows, u, ActiveExperiment)
       IN  xp' = [xp EXCEPT !.req[q] =
                 IF found = {}
                 THEN [pc |-> "assign", user |-> u, variant |-> NoVariant, first |-> TRUE]
                 ELSE [pc |-> "resolved", user |-> u,
                       variant |-> xp.rows[CHOOSE i \in found : TRUE].variant,
                       first |-> FALSE]]
    /\ UNCHANGED <<serving, rk, fb, ft, ui, ce, wk, bl, ro, ap>>

\* A router that alternates variants by arrival instead of hashing
ExposeAssignByArrival(q) ==
    /\ xp.req[q].pc = "assign"
    /\ xp' = [xp EXCEPT !.req[q].pc = "persist",
                        !.req[q].variant =
                            IF Cardinality({o \in Requests : xp.req[o].pc = "persist"}) % 2 = 0
                            THEN "A" ELSE "B"]
    /\ UNCHANGED <<serving, rk, fb, ft, ui, ce, wk, bl, ro, ap>>

\* First exposure: the variant is computed from the hash
ExposeAssign(q) ==
    /\ xp.req[q].pc = "assign"
    /\ xp' = [xp EXCEPT !.req[q].pc = "persist",
                        !.req[q].variant = assign_user_to_variant(xp.req[q].user, ActiveExperiment)]
    /\ UNCHANGED <<serving, rk, fb, ft, ui, ce, wk, bl, ro, ap>>

\* The assignment is created once per (user, experiment)
ExposePersist(q) ==
    /\ xp.req[q].pc = "persist"
    /\ LET u == xp.req[q].user
           row == [user |-> u, experiment |-> ActiveExperiment, variant |-> xp.req[q].variant]
       IN  xp' = [xp EXCEPT !.req[q].pc = "resolved",
                            !.rows = IF AssignmentRows(@, u, ActiveExperiment) = {}
                                     THEN Append(@, row) ELSE @]
    /\ UNCHANGED <<serving, rk, fb, ft, ui, ce, wk, bl, ro, ap>>

----------------------------------------------------------------------------
(* Feature engineering: interaction scoring and time decay, folded over an
   interaction log into one weight per (user, item) *)

\* Every interaction type scores alike.
score_map_unweighted == [view |-> 1, like |-> 1, cart |-> 1, purchase |-> 1]

\* score_map = {'view': 1, 'like': 2, 'cart': 3, 'purchase': 5}
score_map == [view |-> 1, like |-> 2, cart |-> 3, purchase |-> 5]

\* np.exp(-x / 10) in thousandths, rounded
ExpPermille(x) ==
    CASE x = 0 -> 1000
      [] x = 1 -> 905
      [] x = 2 -> 819
      [] x = 3 -> 741
      [] x = 4 -> 670
      [] OTHER -> 607

\* score * np.exp(-decay_factor * days_ago), in thousandths; decay_factor in tenths
apply_time_decay(score, days_ago, decay_factor) == score * ExpPermille(decay_factor * days_ago)

FeatureUsers == {1}
FeatureItems == {10, 11}
FeaturePairs == FeatureUsers \X FeatureItems

\* decay_factor=0.1 by default, 0 for no decay
DecayFactors == {0, DefaultDecay}

FeatureRowValues ==
    [user : FeatureUsers, item : FeatureItems, type : DOMAIN score_map, day : 0..MaxDays]

IdleBuilder ==
    [pc |-> "idle", log |-> <<>>, decay |-> 0, idx |-> 0,
     weight |-> [k \in FeaturePairs |-> 0]]

\* The decayed score of one interaction on the day the features are built
DecayedScore(row, decay) == apply_time_decay(score_map[row.type], MaxDays - row.day, decay)

\* The next interaction of the log is added to the weight of its pair
FeatureStep ==
    /\ fb.pc = "build"
    /\ fb.idx < Len(fb.log)
    /\ LET row == fb.log[fb.idx + 1]
       IN  fb' = [fb EXCEPT !.idx = @ + 1,
                            !.weight[<<row.user, row.item>>] = @ + DecayedScore(row, fb.decay)]
    /\ UNCHANGED <<serving, rk, xp, ft, ui, ce, wk, bl, ro, ap>>

\* The log is exhausted
FeatureFinish ==
    /\ fb.pc = "build"
    /\ fb.idx = Len(fb.log)
    /\ fb' = [fb EXCEPT !.pc = "built"]
    /\ UNCHANGED <<serving, rk, xp, ft, ui, ce, wk, bl, ro, ap>>

----------------------------------------------------------------------------
(* MatrixFactorizationModel.fit, run several times *)

Fits == 1..NumFits

\* Training data: sequences of (user_idx, item_idx, rating)
FitData == {<< <<1, 1, 1>> >>, << <<1, 1, 5>> >>}

\* The seed a run is configured with
FitSeeds == {7, 42}

\* What np.random.normal returns: the next values of numpy's global generator
RngDraws == 1..NumDraws

\* Factor matrices as the value they were initialised with and the SGD
\* updates applied to it since, in order
InitialFactors(draw) == [init |-> draw, updates |-> <<>>]

\* One pass of `for user_idx, item_idx, rating in training_data`
SgdEpoch(factors, data) == [factors EXCEPT !.updates = @ \o data]

NoFit ==
    [pc |-> "idle", data |-> <<>>, seed |-> 0, epochs |-> 0, epoch |-> 0,
     user_factors |-> InitialFactors(0), item_factors |-> InitialFactors(0)]

IdleFits == [k \in Fits |-> NoFit]

\* fit(df, epochs): self.user_factors / self.item_factors = np.random.normal(...).
\* The generator is the process-wide one and the code never seeds it, so the
\* values drawn are not a function of the inputs of the run.
FitStart(k, data, seed, epochs) ==
    /\ ft[k].pc = "idle"
    /\ \E du \in RngDraws, di \in RngDraws :
          ft' = [ft EXCEPT ![k] =
                    [pc |-> "sgd", data |-> data, seed |-> seed, epochs |-> epochs, epoch |-> 0,
                     user_factors |-> InitialFactors(du), item_factors |-> InitialFactors(di)]]
    /\ UNCHANGED <<serving, rk, xp, fb, ui, ce, wk, bl, ro, ap>>

\* for epoch in range(epochs): one pass of SGD updates over the training data
FitEpoch(k) ==
    /\ ft[k].pc = "sgd"
    /\ ft[k].epoch < ft[k].epochs
    /\ ft' = [ft EXCEPT ![k].epoch = @ + 1,
                        ![k].user_factors = SgdEpoch(@, ft[k].data),
                        ![k].item_factors = SgdEpoch(@, ft[k].data)]
    /\ UNCHANGED <<serving, rk, xp, fb, ui, ce, wk, bl, ro, ap>>

\* The loop is over: fit returns
FitReturn(k) ==
    /\ ft[k].pc = "sgd"
    /\ ft[k].epoch = ft[k].epochs
    /\ ft' = [ft EXCEPT ![k].pc = "fitted"]
    /\ UNCHANGED <<serving, rk, xp, fb, ui, ce, wk, bl, ro, ap>>

----------------------------------------------------------------------------
(* Storefront: the React component AdvancedEcommerceAI. Every handler runs
   on the state of the latest render; a handler is an operator from the
   state before to the state after it. *)

StoreUsers == {1, 2}
StoreProducts == {1, 2}

\* The types the buttons of a product card record
ClickTypes == {"view", "like", "wishlist"}

\* ['purchase', 'cart', 'wishlist']
RegeneratingTypes == {"purchase", "cart", "wishlist"}

\* useState initial values; currentUser 0 is null, recommendations 0 is [],
\* else the user the list was generated for. userBehavior holds the entries
\* recorded since the component was mounted. clock is Date.now(). The other
\* fields are history: `served` holds the indices of userBehavior that a
\* regeneration for their user has followed, `added` the addToCart calls per
\* product since the last checkout, `notified` the addNotification calls.
\* `timers` holds the pending refresh timers, `expiries` the ids the pending
\* notification timers remove.
IdleStorefront ==
    [currentUser |-> 0, cart |-> <<>>, userBehavior |-> <<>>, recommendations |-> 0,
     isLoading |-> FALSE, modelTrainingStatus |-> "idle", notifications |-> <<>>,
     timers |-> <<>>, expiries |-> <<>>, clock |-> 0,
     served |-> {}, added |-> [p \in StoreProducts |-> 0], notified |-> 0]

\* seq without its i-th element
RemoveAt(seq, i) == SubSeq(seq, 1, i - 1) \o SubSeq(seq, i + 1, Len(seq))

\* The delay of the setTimeout of a refresh timer, in ms
Delay(kind) == IF kind = "trigger" THEN TriggerDelay ELSE GenerateDelay

\* The i-th pending refresh timer can be the next of them to fire: no timer
\* set before it has a delay as short as its own
CanFire(st, i) ==
    /\ i \in 1..Len(st.timers)
    /\ \A j \in 1..(i - 1) : Delay(st.timers[j].kind) > Delay(st.timers[i].kind)

\* prev.slice(0, 4)
Slice4(seq) == SubSeq(seq, 1, IF Len(seq) < 4 THEN Len(seq) ELSE 4)

\* addNotification appending the notification to the whole list
addNotificationAppending(st) ==
    [st EXCEPT !.notified = @ + 1,
               !.notifications = Append(@, [id |-> st.clock, serial |-> st.notified + 1]),
               !.expiries = Append(@, st.clock)]

\* addNotification(message, type): id: Date.now(), prepended to the first four,
\* removed by id 5000 ms later; the timers of the notifications, all of one
\* delay, fire in the order they were set
addNotification(st) ==
    [st EXCEPT !.notified = @ + 1,
               !.notifications = <<[id |-> st.clock, serial |-> st.notified + 1]>> \o Slice4(@),
               !.expiries = Append(@, st.clock)]

\* generateAdvancedRecommendations(userId): loading, status 'processing', the
\* list is set by a timer 2000 ms later
generateAdvancedRecommendations(st, userId) ==
    [st EXCEPT !.isLoading = TRUE,
               !.modelTrainingStatus = "processing",
               !.timers = Append(@, [kind |-> "generate", arg |-> userId])]

\* recordAdvancedInteraction without the test of currentUser
recordAdvancedInteractionUnguarded(st, productId, type) ==
    LET logged == [st EXCEPT !.userBehavior =
                      Append(@, [userId |-> st.currentUser,
                                 productId |-> productId, type |-> type])]
    IN  IF type \in RegeneratingTypes
        THEN addNotification(
               [logged EXCEPT !.timers =
                   Append(@, [kind |-> "trigger", arg |-> st.currentUser])])
        ELSE logged

\* recordAdvancedInteraction setting the log to the new entry alone
recordAdvancedInteractionReplacing(st, productId, type) ==
    IF st.currentUser = 0 THEN st
    ELSE LET logged == [st EXCEPT !.userBehavior =
                           <<[userId |-> st.currentUser,
                              productId |-> productId, type |-> type]>>]
         IN  IF type \in RegeneratingTypes
             THEN addNotification(
                    [logged EXCEPT !.timers =
                        Append(@, [kind |-> "trigger", arg |-> st.currentUser])])
             ELSE logged

\* recordAdvancedInteraction(productId, type)
recordAdvancedInteraction(st, productId, type) ==
    IF st.currentUser = 0 THEN st
    ELSE LET logged == [st EXCEPT !.userBehavior =
                           Append(@, [userId |-> st.currentUser,
                                      productId |-> productId, type |-> type])]
         IN  IF type \in RegeneratingTypes
             THEN addNotification(
                    [logged EXCEPT !.timers =
                        Append(@, [kind |-> "trigger", arg |-> st.currentUser])])
             ELSE logged

\* The line of the cart for a product, 0 when there is none
CartLine(cart, id) ==
    IF \E k \in 1..Len(cart) : cart[k].id = id
    THEN CHOOSE k \in 1..Len(cart) : cart[k].id = id /\ \A l \in 1..(k - 1) : cart[l].id # id
    ELSE 0

\* addToCart adding a new line for every call
addToCartAlwaysAppending(st, id) ==
    recordAdvancedInteraction(
        [st EXCEPT !.cart = Append(@, [id |-> id, quantity |-> 1]),
                   !.added[id] = @ + 1],
        id, "cart")

\* addToCart(product)
addToCart(st, id) ==
    recordAdvancedInteraction(
        [st EXCEPT !.cart = IF CartLine(st.cart, id) # 0
                            THEN [k \in 1..Len(@) |->
                                    IF @[k].id = id
                                    THEN [@[k] EXCEPT !.quantity = @ + 1] ELSE @[k]]
                            ELSE Append(@, [id |-> id, quantity |-> 1]),
                   !.added[id] = @ + 1],
        id, "cart")

RECURSIVE RecordPurchases(_, _)
\* cart.forEach(item => recordAdvancedInteraction(item.id, 'purchase'))
RecordPurchases(st, lines) ==
    IF lines = <<>> THEN st
    ELSE RecordPurchases(recordAdvancedInteraction(st, Head(lines).id, "purchase"),
                         Tail(lines))

\* The checkout recording one purchase per unit
checkoutPerUnit(st) ==
    [addNotification(RecordPurchases(RecordPurchases(st, st.cart),
                                     SelectSeq(st.cart, LAMBDA l : l.quantity > 1)))
        EXCEPT !.cart = <<>>, !.added = [p \in StoreProducts |-> 0]]

\* Checkout button
checkout(st) ==
    [addNotification(RecordPurchases(st, st.cart))
        EXCEPT !.cart = <<>>, !.added = [p \in StoreProducts |-> 0]]

\* Logout button: setCurrentUser(null); setRecommendations([]); addNotification
logout(st) ==
    addNotification([st EXCEPT !.currentUser = 0, !.recommendations = 0])

\* The state stays within the bounds of the model
Bounded(st) ==
    /\ Len(st.userBehavior) <= MaxBehaviors
    /\ Len(st.timers) <= MaxTimers
    /\ st.notified <= MaxNotified
    /\ \A k \in 1..Len(st.cart) : st.cart[k].quantity <= MaxQuantity

\* handleUserLogin(user), from the login buttons shown while nobody is logged in
handleUserLogin(u) ==
    /\ ui.currentUser = 0
    /\ LET st == addNotification(
                    generateAdvancedRecommendations([ui EXCEPT !.currentUser = u], u))
       IN  Bounded(st) /\ ui' = st
    /\ UNCHANGED <<serving, rk, xp, fb, ft, ce, wk, bl, ro, ap>>

\* A View, Like or Wishlist button of a product card is clicked
CardClick(productId, type) ==
    /\ LET st == recordAdvancedInteraction(ui, productId, type)
       IN  Bounded(st) /\ ui' = st
    /\ UNCHANGED <<serving, rk, xp, fb, ft, ce, wk, bl, ro, ap>>

\* The Add to Cart button of a product card is clicked
AddToCartClick(productId) ==
    /\ LET st == addToCart(ui, productId)
       IN  Bounded(st) /\ ui' = st
    /\ UNCHANGED <<serving, rk, xp, fb, ft, ce, wk, bl, ro, ap>>

\* The Checkout button, shown while the cart is not empty, is clicked
Checkout ==
    /\ ui.cart # <<>>
    /\ LET st == checkout(ui)
       IN  Bounded(st) /\ ui' = st
    /\ UNCHANGED <<serving, rk, xp, fb, ft, ce, wk, bl, ro, ap>>

\* The Refresh button, shown while a user is logged in, is clicked
Refresh ==
    /\ ui.currentUser # 0
    /\ LET st == generateAdvancedRecommendations(ui, ui.currentUser)
       IN  Bounded(st) /\ ui' = st
    /\ UNCHANGED <<serving, rk, xp, fb, ft, ce, wk, bl, ro, ap>>

\* setTimeout(() => generateAdvancedRecommendations(currentUser.id), 800) fires
TimerTrigger(i) ==
    /\ CanFire(ui, i)
    /\ ui.timers[i].kind = "trigger"
    /\ ui' = generateAdvancedRecommendations([ui EXCEPT !.timers = RemoveAt(@, i)],
                                             ui.timers[i].arg)
    /\ UNCHANGED <<serving, rk, xp, fb, ft, ce, wk, bl, ro, ap>>

\* The 2000 ms timer of generateAdvancedRecommendations fires:
\* setRecommendations(recs); setModelTrainingStatus('completed');
\* setIsLoading(false); addNotification
TimerGenerate(i) ==
    /\ CanFire(ui, i)
    /\ ui.timers[i].kind = "generate"
    /\ LET st == addNotification(
                    [ui EXCEPT !.timers = RemoveAt(@, i),
                               !.recommendations = ui.timers[i].arg,
                               !.modelTrainingStatus = "completed",
                               !.isLoading = FALSE,
                               !.served = @ \cup {b \in 1..Len(ui.userBehavior) :
                                                    ui.userBehavior[b].userId = ui.timers[i].arg}])
       IN  Bounded(st) /\ ui' = st
    /\ UNCHANGED <<serving, rk, xp, fb, ft, ce, wk, bl, ro, ap>>

\* The 5000 ms timer of addNotification fires:
\* setNotifications(prev => prev.filter(n => n.id !== notification.id))
TimerExpire ==
    /\ ui.expiries # <<>>
    /\ ui' = [ui EXCEPT !.expiries = Tail(@),
                        !.notifications = SelectSeq(@, LAMBDA n : n.id # Head(ui.expiries))]
    /\ UNCHANGED <<serving, rk, xp, fb, ft, ce, wk, bl, ro, ap>>

\* Logout button, shown while a user is logged in
Logout ==
    /\ ui.currentUser # 0
    /\ LET st == logout(ui)
       IN  Bounded(st) /\ ui' = st
    /\ UNCHANGED <<serving, rk, xp, fb, ft, ce, wk, bl, ro, ap>>

\* A millisecond passes
StoreTick ==
    /\ ui.clock < MaxClock
    /\ ui' = [ui EXCEPT !.clock = @ + 1]
    /\ UNCHANGED <<serving, rk, xp, fb, ft, ce, wk, bl, ro, ap>>

----------------------------------------------------------------------------
(* Multi-layer caching: CachedRecommendationEngine.get_recommendations *)

LayerUsers == {1, 2}
LayerKeys == LayerUsers \X Counts

\* A stored list; storedAt is the time of the cache.set that stored it
NoLayerEntry == [recs |-> <<>>, storedAt |-> -1, expires |-> -1]

\* The call in flight; once it returned, `layer` says which layer answered,
\* `at` when, and storedAt when the returned list had been stored
NoLayerCall == [pc |-> "idle", user |-> 0, count |-> 0, recs |-> <<>>, storedAt |-> -1,
                layer |-> "none", at |-> -1]

IdleLayers ==
    [memory_cache |-> [k \in LayerKeys |-> NoLayerEntry],
     redis |-> [k \in LayerKeys |-> NoLayerEntry],
     call |-> NoLayerCall]

\* L1 and L2 lookups: `if memory_key in self.memory_cache`, then
\* `cached = cache.get(redis_key); if cached:` with the copy into L1
LayerLookup(u, n) ==
    /\ ce.call.pc \in {"idle", "done"}
    /\ LET k == <<u, n>>
           m == ce.memory_cache[k]
           c == ce.redis[k]
       IN  IF m # NoLayerEntry
           THEN ce' = [ce EXCEPT !.call = [pc |-> "done", user |-> u, count |-> n,
                                           recs |-> m.recs, storedAt |-> m.storedAt,
                                           layer |-> "L1", at |-> now]]
           ELSE IF c # NoLayerEntry /\ now < c.expires /\ c.recs # <<>>
           THEN ce' = [ce EXCEPT !.memory_cache[k] = c,
                                 !.call = [pc |-> "done", user |-> u, count |-> n,
                                           recs |-> c.recs, storedAt |-> c.storedAt,
                                           layer |-> "L2", at |-> now]]
           ELSE ce' = [ce EXCEPT !.call = [NoLayerCall EXCEPT !.pc = "compute", !.user = u,
                                                              !.count = n]]
    /\ UNCHANGED <<serving, rk, xp, fb, ft, ui, wk, bl, ro, ap>>

\* L3: self._compute_recommendations(user_id, num_recommendations)
LayerCompute ==
    /\ ce.call.pc = "compute"
    /\ ce' = [ce EXCEPT !.call.pc = "store",
                        !.call.recs = ComputeRecommendations(store, snapshots[current],
                                                             ce.call.user, ce.call.count)]
    /\ UNCHANGED <<serving, rk, xp, fb, ft, ui, wk, bl, ro, ap>>

\* cache.set(redis_key, recommendations, timeout=1800);
\* self.memory_cache[memory_key] = recommendations; return recommendations
LayerStore ==
    /\ ce.call.pc = "store"
    /\ LET k == <<ce.call.user, ce.call.count>>
           e == [recs |-> ce.call.recs, storedAt |-> now, expires |-> now + CacheTimeout]
       IN  ce' = [ce EXCEPT !.redis[k] = e,
                            !.memory_cache[k] = e,
                            !.call.pc = "done", !.call.storedAt = now, !.call.layer = "L3",
                            !.call.at = now]
    /\ UNCHANGED <<serving, rk, xp, fb, ft, ui, wk, bl, ro, ap>>

----------------------------------------------------------------------------
(* The weighted ensemble applied to the outputs of two scorers, one candidate
   after the other *)

BlendItems == 1..NumBlendItems

\* What a scorer reports for a candidate: a score, or that it has none
Scored(v) == [kind |-> "value", v |-> v]
Unavailable == [kind |-> "unavailable", v |-> 0]
NotANumber == [kind |-> "nan", v |-> 0]

ScorerOutputs == {Scored(v) : v \in 0..MaxScore} \cup {Unavailable}

\* The entry of the score array for a candidate the scorer has no score for:
\* the arrays are numeric, so it is 0 or NaN
ArrayEntries(o) == IF o = Unavailable THEN {Scored(0), NotANumber} ELSE {o}

\* 0.7 * cf_scores + 0.3 * mf_scores for one candidate, floating point
WeightedEnsemble(cf, mf) ==
    IF cf = NotANumber \/ mf = NotANumber THEN NotANumber
    ELSE Scored(Ensemble(cf.v, mf.v))

IdleBlend == [pc |-> "idle", cf |-> <<>>, mf |-> <<>>, out |-> <<>>]

\* The next candidate is blended
BlendApply ==
    /\ bl.pc = "blend"
    /\ Len(bl.out) < Len(bl.cf)
    /\ LET i == Len(bl.out) + 1
       IN  \E c \in ArrayEntries(bl.cf[i]), m \in ArrayEntries(bl.mf[i]) :
              bl' = [bl EXCEPT !.out = Append(@, WeightedEnsemble(c, m))]
    /\ UNCHANGED <<serving, rk, xp, fb, ft, ui, ce, wk, ro, ap>>

\* All candidates are blended
BlendReturn ==
    /\ bl.pc = "blend"
    /\ Len(bl.out) = Len(bl.cf)
    /\ bl' = [bl EXCEPT !.pc = "done"]
    /\ UNCHANGED <<serving, rk, xp, fb, ft, ui, ce, wk, ro, ap>>

----------------------------------------------------------------------------
(* Output ranking: the two places that order scored candidates, applied to
   candidates enumerated in any order *)

OrderItems == 1..NumCandidates

\* The enumerations of the candidates: every order of the same items
Enumerations == {f \in [OrderItems -> OrderItems] : \A i, j \in OrderItems : f[i] = f[j] => i = j}

Reverse(seq) == [i \in 1..Len(seq) |-> seq[Len(seq) + 1 - i]]

\* np.argsort(ensemble_scores): the indices of the candidates in ascending
\* score; the default kind is not stable, so equal scores come in any order
ArgSorts(cands, sc) ==
    {f \in Enumerations : \A i, j \in OrderItems : i < j => sc[cands[f[i]]] <= sc[cands[f[j]]]}

IdleOrdering == [pc |-> "idle", cands |-> <<>>, cf |-> <<>>, mf |-> <<>>, count |-> 0,
                 out |-> <<>>]

\* final_scores of the candidates
FinalScores(o) == [p \in OrderItems |-> Ensemble(o.cf[p], o.mf[p])]

\* get_recommendations: sorted(..., reverse=True) and the slice
RankSorted ==
    /\ ro.pc = "input"
    /\ ro' = [ro EXCEPT !.pc = "sorted",
                        !.out = TopN(ro.cands, FinalScores(ro), ro.count)]
    /\ UNCHANGED <<serving, rk, xp, fb, ft, ui, ce, wk, bl, ap>>

\* get_ensemble_recommendations: np.argsort(ensemble_scores)[::-1][:n]
RankArgsort ==
    /\ ro.pc = "input"
    /\ \E f \in ArgSorts(ro.cands, FinalScores(ro)) :
          ro' = [ro EXCEPT !.pc = "argsorted",
                           !.out = Take([i \in OrderItems |-> ro.cands[Reverse(f)[i]]],
                                        ro.count)]
    /\ UNCHANGED <<serving, rk, xp, fb, ft, ui, ce, wk, bl, ap>>

----------------------------------------------------------------------------
(* services/api.js: ApiService.getAllProducts over ApiService.request *)

ApiCalls == 1..NumApiCalls

\* Status codes the backend answers with; response.ok is 200..299
Statuses == {200, 404, 500}

\* Bodies of a search response
Bodies == {[products |-> <<>>, count |-> 0], [products |-> <<1>>, count |-> 1]}

\* The sample data getAllProducts falls back to
SampleCatalogue == [products |-> <<1, 2, 3, 4, 5>>, count |-> SampleCount]

NoBody == [products |-> <<>>, count |-> -1]

\* A call of getAllProducts: where it is, the error thrown at it ("none" when
\* none), the response status, and what its promise settled to
NoApiCall == [pc |-> "idle", error |-> "none", status |-> 0, result |-> NoBody]

IdleApi == [k \in ApiCalls |-> NoApiCall]

\* getAllProducts() is called: searchProducts('', null), request, fetch
GetAllProducts(k) ==
    /\ ap[k].pc = "idle"
    /\ ap' = [ap EXCEPT ![k].pc = "fetch"]
    /\ UNCHANGED <<serving, rk, xp, fb, ft, ui, ce, wk, bl, ro>>

\* fetch rejects: request's catch logs and rethrows
FetchReject(k) ==
    /\ ap[k].pc = "fetch"
    /\ ap' = [ap EXCEPT ![k].pc = "thrown", ![k].error = "network"]
    /\ UNCHANGED <<serving, rk, xp, fb, ft, ui, ce, wk, bl, ro>>

\* fetch resolves with a response: !response.ok throws, else response.json()
FetchResponse(k, status) ==
    /\ ap[k].pc = "fetch"
    /\ ap' = IF status \in 200..299
             THEN [ap EXCEPT ![k].pc = "json", ![k].status = status]
             ELSE [ap EXCEPT ![k].pc = "thrown", ![k].status = status, ![k].error = "http"]
    /\ UNCHANGED <<serving, rk, xp, fb, ft, ui, ce, wk, bl, ro>>

\* response.json() resolves: request, searchProducts and getAllProducts return it
JsonResolve(k, body) ==
    /\ ap[k].pc = "json"
    /\ ap' = [ap EXCEPT ![k].pc = "resolved", ![k].result = body]
    /\ UNCHANGED <<serving, rk, xp, fb, ft, ui, ce, wk, bl, ro>>

\* response.json() rejects (the body is not JSON): request's catch rethrows
JsonReject(k) ==
    /\ ap[k].pc = "json"
    /\ ap' = [ap EXCEPT ![k].pc = "thrown", ![k].error = "json"]
    /\ UNCHANGED <<serving, rk, xp, fb, ft, ui, ce, wk, bl, ro>>

\* getAllProducts without the await: the rejection passes its catch
GetAllProductsCatchSkipped(k) ==
    /\ ap[k].pc = "thrown"
    /\ ap' = [ap EXCEPT ![k].pc = "rejected"]
    /\ UNCHANGED <<serving, rk, xp, fb, ft, ui, ce, wk, bl, ro>>

\* The catch of getAllProducts: return the sample data
GetAllProductsCatch(k) ==
    /\ ap[k].pc = "thrown"
    /\ ap' = [ap EXCEPT ![k].pc = "resolved", ![k].result = SampleCatalogue]
    /\ UNCHANGED <<serving, rk, xp, fb, ft, ui, ce, wk, bl, ro>>

----------------------------------------------------------------------------
\* Time passes
Tick ==
    /\ now < MaxTicks * CacheTimeout
    /\ now' = now + CacheTimeout
    /\ UNCHANGED <<store, cache, wr, rd, snapshots, current, tr, metrics, assignment, rk, xp, fb, ft, ui, ce, wk, bl, ro, ap>>

Init ==
    /\ store = <<>>
    /\ now = 0
    /\ cache = [k \in CacheKeys |-> NoEntry]
    /\ wr = IdleWriter
    /\ rd = [r \in Readers |-> IdleReader]
    /\ snapshots = <<InitialSnapshot>>
    /\ current = 1
    /\ tr = IdleTrainer
    /\ metrics = 0
    /\ assignment = [u \in Users |-> NoVariant]
    /\ rk = IdleRanking
    /\ xp = IdleExposure
    /\ fb = IdleBuilder
    /\ ft = IdleFits
    /\ ui = IdleStorefront
    /\ ce = IdleLayers
    /\ wk = IdleWorkingCopy
    /\ bl = IdleBlend
    /\ ro = IdleOrdering
    /\ ap = IdleApi

\* The serving path: interaction posts, recommendation requests, precompute
\* tasks and the passage of time
Next ==
    \/ \E u \in Users, p \in Products, t \in PostedTypes, check \in BOOLEAN :
          PostCreate(u, p, t, check)
    \/ PostRecord
    \/ \E r \in Readers, u \in Users, n \in Counts, task \in BOOLEAN, raised \in BOOLEAN :
          GetStart(r, u, n, task, raised)
    \/ \E r \in Readers : GetCompute(r)
    \/ \E r \in Readers : GetStore(r)
    \/ \E r \in Readers : PrecomputeSet(r)
    \/ Tick

Spec == Init /\ [][Next]_vars

\* The retrain_models task next to API traffic whose dependencies answer and
\* whose posts are well-formed
TrainNext ==
    \/ \E u \in Users, p \in Products, t \in InteractionTypes \cap PostedTypes :
          PostCreate(u, p, t, FALSE)
    \/ PostRecord
    \/ \E r \in Readers, u \in Users, n \in Counts : GetStart(r, u, n, FALSE, FALSE)
    \/ \E r \in Readers : GetCompute(r)
    \/ \E r \in Readers : GetStore(r)
    \/ TrainStart
    \/ TrainEpoch
    \/ TrainFinish
    \/ TrainInvalidate
    \/ IncrementalUpdate

SpecTrain == Init /\ [][TrainNext]_vars

\* Cold-start ranking over every catalogue and popularity table of the bounds
RankInit ==
    /\ store = <<>>
    /\ now = 0
    /\ cache = [k \in CacheKeys |-> NoEntry]
    /\ wr = IdleWriter
    /\ rd = [r \in Readers |-> IdleReader]
    /\ snapshots = <<InitialSnapshot>>
    /\ current = 1
    /\ tr = IdleTrainer
    /\ metrics = 0
    /\ assignment = [u \in Users |-> NoVariant]
    /\ xp = IdleExposure
    /\ fb = IdleBuilder
    /\ ft = IdleFits
    /\ ui = IdleStorefront
    /\ ce = IdleLayers
    /\ wk = IdleWorkingCopy
    /\ bl = IdleBlend
    /\ ro = IdleOrdering
    /\ ap = IdleApi
    /\ \E a \in SUBSET RankProducts, f \in [RankProducts -> 0..MaxPopularity] :
          rk = [pc |-> "input", active |-> a, pop |-> f, count |-> RankCount, out |-> <<>>]

SpecRank == RankInit /\ [][RankApply]_vars

\* Concurrent exposures of the users of the experiment
ExposeNext ==
    \/ \E q \in Requests, u \in ExposedUsers : ExposeLookup(q, u)
    \/ \E q \in Requests : ExposeAssign(q)
    \/ \E q \in Requests : ExposePersist(q)

SpecExpose == Init /\ [][ExposeNext]_vars

\* Feature building over every interaction log of the bounds
FeatureInit ==
    /\ store = <<>>
    /\ now = 0
    /\ cache = [k \in CacheKeys |-> NoEntry]
    /\ wr = IdleWriter
    /\ rd = [r \in Readers |-> IdleReader]
    /\ snapshots = <<InitialSnapshot>>
    /\ current = 1
    /\ tr = IdleTrainer
    /\ metrics = 0
    /\ assignment = [u \in Users |-> NoVariant]
    /\ rk = IdleRanking
    /\ xp = IdleExposure
    /\ ft = IdleFits
    /\ ui = IdleStorefront
    /\ ce = IdleLayers
    /\ wk = IdleWorkingCopy
    /\ bl = IdleBlend
    /\ ro = IdleOrdering
    /\ ap = IdleApi
    /\ \E n \in 0..MaxEvents : \E log \in [1..n -> FeatureRowValues], d \in DecayFactors :
          fb = [IdleBuilder EXCEPT !.pc = "build", !.log = log, !.decay = d]

FeatureNext == FeatureStep \/ FeatureFinish

SpecFeature == FeatureInit /\ [][FeatureNext]_vars

\* Independent runs of fit
FitNext ==
    \/ \E k \in Fits, data \in FitData, seed \in FitSeeds, epochs \in 1..MaxEpochs :
          FitStart(k, data, seed, epochs)
    \/ \E k \in Fits : FitEpoch(k)
    \/ \E k \in Fits : FitReturn(k)

SpecFit == Init /\ [][FitNext]_vars

\* The storefront: the clicks of the user and the refresh timers they start,
\* while the notifications pile up
StoreNext ==
    \/ \E u \in StoreUsers : handleUserLogin(u)
    \/ \E p \in StoreProducts, t \in ClickTypes : CardClick(p, t)
    \/ \E p \in StoreProducts : AddToCartClick(p)
    \/ Checkout
    \/ Refresh
    \/ \E i \in 1..MaxTimers : TimerTrigger(i)
    \/ \E i \in 1..MaxTimers : TimerGenerate(i)
    \/ Logout

SpecStore == Init /\ [][StoreNext]_vars

\* The storefront's notifications: the handlers and timers that add one, the
\* timers that remove them, and the clock their ids are read from
NotifyNext ==
    \/ \E u \in StoreUsers : handleUserLogin(u)
    \/ \E p \in StoreProducts : AddToCartClick(p)
    \/ Checkout
    \/ \E i \in 1..MaxTimers : TimerTrigger(i)
    \/ \E i \in 1..MaxTimers : TimerGenerate(i)
    \/ TimerExpire
    \/ Logout
    \/ StoreTick

SpecNotify == Init /\ [][NotifyNext]_vars

\* Calls of getAllProducts against a backend that answers, fails or is away
ApiNext ==
    \/ \E k \in ApiCalls : GetAllProducts(k)
    \/ \E k \in ApiCalls : FetchReject(k)
    \/ \E k \in ApiCalls, status \in Statuses : FetchResponse(k, status)
    \/ \E k \in ApiCalls, body \in Bodies : JsonResolve(k, body)
    \/ \E k \in ApiCalls : JsonReject(k)
    \/ \E k \in ApiCalls : GetAllProductsCatch(k)

SpecApi == Init /\ [][ApiNext]_vars

\* The layered engine answering requests while time passes
LayerNext ==
    \/ \E u \in LayerUsers, n \in Counts : LayerLookup(u, n)
    \/ LayerCompute
    \/ LayerStore
    \/ Tick

SpecLayers == Init /\ [][LayerNext]_vars

\* The blend over every combination of scorer outputs of the bounds
BlendInit ==
    /\ store = <<>>
    /\ now = 0
    /\ cache = [k \in CacheKeys |-> NoEntry]
    /\ wr = IdleWriter
    /\ rd = [r \in Readers |-> IdleReader]
    /\ snapshots = <<InitialSnapshot>>
    /\ current = 1
    /\ tr = IdleTrainer
    /\ metrics = 0
    /\ assignment = [u \in Users |-> NoVariant]
    /\ rk = IdleRanking
    /\ xp = IdleExposure
    /\ ft = IdleFits
    /\ ui = IdleStorefront
    /\ ce = IdleLayers
    /\ wk = IdleWorkingCopy
    /\ fb = IdleBuilder
    /\ ro = IdleOrdering
    /\ ap = IdleApi
    /\ \E cf \in [BlendItems -> ScorerOutputs], mf \in [BlendItems -> ScorerOutputs] :
          bl = [pc |-> "blend", cf |-> cf, mf |-> mf, out |-> <<>>]

BlendNext == BlendApply \/ BlendReturn

SpecBlend == BlendInit /\ [][BlendNext]_vars

\* The ranking over every enumeration and every pair of score tables of the bounds
OrderInit ==
    /\ store = <<>>
    /\ now = 0
    /\ cache = [k \in CacheKeys |-> NoEntry]
    /\ wr = IdleWriter
    /\ rd = [r \in Readers |-> IdleReader]
    /\ snapshots = <<InitialSnapshot>>
    /\ current = 1
    /\ tr = IdleTrainer
    /\ metrics = 0
    /\ assignment = [u \in Users |-> NoVariant]
    /\ rk = IdleRanking
    /\ xp = IdleExposure
    /\ ft = IdleFits
    /\ ui = IdleStorefront
    /\ ce = IdleLayers
    /\ wk = IdleWorkingCopy
    /\ fb = IdleBuilder
    /\ bl = IdleBlend
    /\ ap = IdleApi
    /\ \E e \in Enumerations, cf \in [OrderItems -> 0..MaxScore],
          mf \in [OrderItems -> 0..MaxScore], n \in 1..NumCandidates :
          ro = [pc |-> "input", cands |-> e, cf |-> cf, mf |-> mf, count |-> n, out |-> <<>>]

OrderNext == RankSorted \/ RankArgsort

SpecOrder == OrderInit /\ [][OrderNext]_vars

----------------------------------------------------------------------------
(* Properties *)

Finished(r) == rd[r].pc = "done"

NoDuplicates(seq) == \A i, j \in 1..Len(seq) : seq[i] = seq[j] => i = j

\* C1: a get_recommendations call that starts after record_interaction for
\* its user has completed returns a list computed after that interaction,
\* never one cached from the history before it.
C1_ServedListIsFresh ==
    \A r \in Readers :
        (Finished(r) /\ rd[r].resp = "200") => rd[r].seen >= rd[r].startDone

\* C2: every list returned by get_recommendations has at most `count`
\* entries, no product twice, and no product the user had purchased when the
\* request started.
C2_ListContract ==
    \A r \in Readers :
        (Finished(r) /\ rd[r].resp = "200") =>
            /\ Len(rd[r].recs) <= rd[r].count
            /\ NoDuplicates(rd[r].recs)
            /\ \A i \in 1..Len(rd[r].recs) : rd[r].recs[i] \notin rd[r].startPurchased

C5_UnknownTypeRejected ==
    /\ \A i \in 1..Len(store) : store[i].type \in InteractionTypes
    /\ (wr.pc = "done" /\ wr.type \notin InteractionTypes) => wr.resp \in {"400", "500"}

C8_NoLostInvalidation ==
    (wr.pc \in {"idle", "done"} /\ \A r \in Readers : rd[r].pc \in {"idle", "done"}) =>
        \A k \in CacheKeys : Live(cache[k]) => cache[k].seenRows = NRows(store, k[1])

\* C10: the store never holds two interactions with the same (user, item,
\* type, timestamp).
C10_NoDuplicateInteraction ==
    \A i, j \in 1..Len(store) : store[i] = store[j] => i = j

----------------------------------------------------------------------------
(* Properties of the training task, under SpecTrain *)

Complete(m) ==
    /\ m.user_factors = Factors(m.version, MaxEpochs)
    /\ m.item_factors = Factors(m.version, MaxEpochs)

----------------------------------------------------------------------------
(* Properties of the cold-start ranking, under SpecRank *)

Min(a, b) == IF a < b THEN a ELSE b

\* x ranks before y: more popular, or as popular with the smaller id
RanksBefore(pop, x, y) == pop[x] > pop[y] \/ (pop[x] = pop[y] /\ x < y)

\* C9: a user without interactions asking for 5 gets the 5 most popular
\* active products (all of them when fewer exist), most popular first, ties
\* by ascending id.
C9_ColdStartTopFive ==
    rk.pc = "done" =>
        LET out == rk.out
            n == Len(out)
            listed == {out[i] : i \in 1..n}
        IN  /\ n = Min(rk.count, Cardinality(rk.active))
            /\ listed \subseteq rk.active
            /\ NoDuplicates(out)
            /\ \A i, j \in 1..n : i < j => RanksBefore(rk.pop, out[i], out[j])
            /\ \A p \in rk.active \ listed : \A i \in 1..n : RanksBefore(rk.pop, out[i], p)

----------------------------------------------------------------------------
(* Properties of the experiment router, under SpecExpose *)

----------------------------------------------------------------------------
(* Properties of the feature builder, under SpecFeature *)

RECURSIVE SumDecayed(_, _, _)
SumDecayed(log, I, decay) ==
    IF I = {} THEN 0
    ELSE LET i == CHOOSE x \in I : TRUE
         IN  DecayedScore(log[i], decay) + SumDecayed(log, I \ {i}, decay)

----------------------------------------------------------------------------
(* Properties of fit, under SpecFit *)

\* C13: two finished runs of fit with the same training data, the same
\* number of epochs and the same seed hold the same user and item factors.
C13_TrainingDeterministic ==
    \A k1, k2 \in Fits :
        (/\ ft[k1].pc = "fitted" /\ ft[k2].pc = "fitted"
         /\ ft[k1].data = ft[k2].data
         /\ ft[k1].epochs = ft[k2].epochs
         /\ ft[k1].seed = ft[k2].seed)
        => (/\ ft[k1].user_factors = ft[k2].user_factors
            /\ ft[k1].item_factors = ft[k2].item_factors)

----------------------------------------------------------------------------
(* Properties of the blend, under Spec *)

RECURSIVE SeqSum(_)
SeqSum(seq) == IF seq = <<>> THEN 0 ELSE seq[1] + SeqSum(Tail(seq))

\* C14: the blend weights of every configuration sum to 1 (10 tenths): those
\* of the variant a request is served with and the documented split; a
\* product both scorers score alike gets that score from the blend.
C14_BlendWeightsSumToOne ==
    /\ SeqSum(DocumentedWeights) = 10
    /\ \A r \in Readers :
          rd[r].variant # NoVariant =>
              /\ SeqSum(VariantWeights(rd[r].variant)) = 10
              /\ \A p \in Products :
                    Ensemble(Popularity(store, p), Popularity(store, p)) = 10 * Popularity(store, p)

\* A request of an assigned user about to store a list blended over products
\* with interactions.
C14_Witness ==
    \E r \in Readers :
        /\ rd[r].pc = "store" /\ rd[r].variant = "A"
        /\ \E p \in Products : Popularity(store, p) > 0

----------------------------------------------------------------------------
(* Properties of the storefront, under SpecStore *)

\* C15: once no timer is pending, every interaction a logged-in user has
\* performed has been followed by a regeneration of that user's
\* recommendations.
C15_EveryInteractionRegenerates ==
    ui.timers = <<>> => \A b \in 1..Len(ui.userBehavior) : b \in ui.served

\* C22: the interaction log is append-only: every step of the storefront
\* (interaction, add to cart, checkout, login, logout, refresh, timer) keeps
\* the entries already recorded, in their order and with their fields.
C22_LogAppendOnly ==
    [][/\ Len(ui'.userBehavior) >= Len(ui.userBehavior)
       /\ SubSeq(ui'.userBehavior, 1, Len(ui.userBehavior)) = ui.userBehavior]_vars

\* A purchase recorded by a checkout is still in the log after the logout.
C22_Witness ==
    /\ ui.currentUser = 0
    /\ Len(ui.userBehavior) = 2
    /\ ui.userBehavior[1].type = "purchase"

\* C24: whenever no user is logged in, the recommendations list is empty,
\* whatever refreshes were started or scheduled before the logout.
C24_NoRecommendationsWhenLoggedOut ==
    ui.currentUser = 0 => ui.recommendations = 0

\* C25: while a started recommendation generation has not delivered its
\* result, isLoading is true and modelTrainingStatus is 'processing'.
C25_LoadingWhileGenerating ==
    (\E i \in 1..Len(ui.timers) : ui.timers[i].kind = "generate") =>
        (ui.isLoading /\ ui.modelTrainingStatus = "processing")

\* C26: the cart has at most one line per product, every line has a
\* quantity of at least 1, and the quantity of a line is the number of
\* addToCart calls for its product since the last checkout.
C26_CartLines ==
    /\ \A k, l \in 1..Len(ui.cart) : ui.cart[k].id = ui.cart[l].id => k = l
    /\ \A k \in 1..Len(ui.cart) :
          ui.cart[k].quantity >= 1 /\ ui.cart[k].quantity = ui.added[ui.cart[k].id]
    /\ \A p \in StoreProducts : ui.added[p] > 0 => \E k \in 1..Len(ui.cart) : ui.cart[k].id = p

\* Two lines in the cart, one of them added twice, after an earlier checkout.
C26_Witness ==
    /\ Len(ui.cart) = 2
    /\ \E k \in 1..2 : ui.cart[k].quantity = 2
    /\ ui.notified > 0

\* C27: a checkout by a logged-in user with n lines in the cart appends n
\* 'purchase' interactions of that user, one per line in the order of the
\* lines, and empties the cart.
C27_CheckoutRecordsEachLine ==
    [][(Checkout /\ ui.currentUser # 0) =>
          LET n == Len(ui.cart)
              m == Len(ui.userBehavior)
          IN  /\ ui'.cart = <<>>
              /\ Len(ui'.userBehavior) = m + n
              /\ SubSeq(ui'.userBehavior, 1, m) = ui.userBehavior
              /\ \A k \in 1..n :
                    ui'.userBehavior[m + k] =
                        [userId |-> ui.currentUser, productId |-> ui.cart[k].id,
                         type |-> "purchase"]]_vars

\* A logged-in user has checked out a cart of two lines.
C27_Witness ==
    /\ ui.currentUser # 0
    /\ ui.cart = <<>>
    /\ Len(ui.userBehavior) = 2
    /\ \A b \in 1..2 : ui.userBehavior[b].type = "purchase"
                       /\ ui.userBehavior[b].userId = ui.currentUser
    /\ ui.userBehavior[1].productId # ui.userBehavior[2].productId

\* Every field of the storefront but the cart and the count of its additions
BesidesCart(st) == [st EXCEPT !.cart = <<>>, !.added = [p \in StoreProducts |-> 0]]

\* C28: while no user is logged in, recordAdvancedInteraction changes
\* nothing and schedules no refresh, and addToCart changes only the cart.
C28_LoggedOutInteractionChangesNothing ==
    [][ui.currentUser = 0 =>
          /\ (\E p \in StoreProducts, t \in ClickTypes : CardClick(p, t)) => ui' = ui
          /\ (\E p \in StoreProducts : AddToCartClick(p)) =>
                (BesidesCart(ui') = BesidesCart(ui) /\ ui'.cart # ui.cart)]_vars

\* Products were added to the cart while nobody had ever logged in.
C28_Witness ==
    /\ ui.currentUser = 0
    /\ Len(ui.cart) = 2
    /\ ui.userBehavior = <<>> /\ ui.notifications = <<>> /\ ui.timers = <<>>
    /\ ui.recommendations = 0 /\ ~ui.isLoading /\ ui.modelTrainingStatus = "idle"

----------------------------------------------------------------------------
(* Properties of the notifications, under SpecNotify *)

\* C29: the notifications list holds at most 5 entries, newest first, and an
\* addition to a list of 5 keeps the 4 newest of them behind the new entry.
C29_AtMostFiveNewestFirst ==
    [][/\ Len(ui'.notifications) <= 5
       /\ \A i, j \in 1..Len(ui'.notifications) :
             i < j => ui'.notifications[i].serial > ui'.notifications[j].serial
       /\ (Len(ui.notifications) = 5 /\ ui'.notified = ui.notified + 1) =>
             /\ Head(ui'.notifications).serial = ui'.notified
             /\ Tail(ui'.notifications) = SubSeq(ui.notifications, 1, 4)]_vars

\* The sixth notification was added to a list of five.
C29_Witness ==
    /\ Len(ui.notifications) = 5
    /\ ui.notifications[1].serial = 6

\* C30: no two notifications in the list share an id.
C30_NotificationIdsUnique ==
    \A i, j \in 1..Len(ui.notifications) :
        ui.notifications[i].id = ui.notifications[j].id => i = j

----------------------------------------------------------------------------
(* Properties of the layered engine, under SpecLayers *)

\* C16: a list is returned from a cache layer only while less than the TTL
\* of 1800 s has passed since it was stored; after that the request is a
\* miss that recomputes.
C16_ServedWithinTTL ==
    (ce.call.pc = "done" /\ ce.call.layer \in {"L1", "L2"}) =>
        ce.call.at < ce.call.storedAt + CacheTimeout

----------------------------------------------------------------------------
(* Properties of the cache key, under SpecTrain *)

\* C17: a request answered from the cache gets a list computed with the
\* snapshot version that was current when the request started and with the
\* variant assigned to its user.
C17_KeyedByVersionAndVariant ==
    \A r \in Readers :
        (Finished(r) /\ rd[r].hit) =>
            /\ rd[r].from.version = rd[r].startVersion
            /\ rd[r].from.variant = rd[r].variant

----------------------------------------------------------------------------
(* Properties of snapshot versions and incremental updates, under SpecTrain *)

DivergedRunEnds == tr.pc = "sgd" /\ tr'.pc = "trained" /\ tr.diverged

IncrementalStepTaken == wk'.applied = wk.applied + 1

----------------------------------------------------------------------------
(* Properties of the blend with unavailable scorers, under SpecBlend *)

\* The weight and the weighted score a scorer output contributes when available
AvailableWeight(o, w) == IF o = Unavailable THEN 0 ELSE w
AvailableScore(o, w) == IF o = Unavailable THEN 0 ELSE w * o.v

\* C20: for a candidate with an unavailable scorer the blended score is the
\* weighted mean of the available scores, the weights of the available
\* scorers rescaled to sum to 1 (scores in tenths).
C20_UnavailableWeightRedistributed ==
    \A i \in 1..Len(bl.out) :
        LET w == AvailableWeight(bl.cf[i], CfWeight) + AvailableWeight(bl.mf[i], MfWeight)
            sc == AvailableScore(bl.cf[i], CfWeight) + AvailableScore(bl.mf[i], MfWeight)
        IN  w > 0 => (bl.out[i].kind = "value" /\ bl.out[i].v * w = 10 * sc)

----------------------------------------------------------------------------
(* Properties of the output ranking, under SpecOrder *)

\* C21: the returned list is in descending blended score, and items of equal
\* blended score are in ascending item id, whatever order the candidates were
\* enumerated in.
C21_ScoreDescendingIdAscending ==
    ro.pc \in {"sorted", "argsorted"} =>
        LET sc == FinalScores(ro)
        IN  \A i, j \in 1..Len(ro.out) :
               i < j => \/ sc[ro.out[i]] > sc[ro.out[j]]
                        \/ (sc[ro.out[i]] = sc[ro.out[j]] /\ ro.out[i] < ro.out[j])

----------------------------------------------------------------------------
(* Properties of the API service, under SpecApi *)

\* C23: getAllProducts never rejects, and a call whose request failed
\* (network error, non-2xx status, unreadable body) resolves to the sample
\* catalogue of 5 products with count 5.
C23_GetAllProductsNeverRejects ==
    \A k \in ApiCalls :
        /\ ap[k].pc # "rejected"
        /\ (ap[k].pc = "resolved" /\ ap[k].error # "none") =>
              /\ ap[k].result = SampleCatalogue
              /\ Len(ap[k].result.products) = 5
              /\ ap[k].result.count = 5

\* A call answered with a non-2xx status has resolved.
C23_Witness ==
    \E k \in ApiCalls : ap[k].pc = "resolved" /\ ap[k].error = "http" /\ ap[k].status = 500

====
